---- MODULE Spec2Model ----
(***************************************************************************)
(* LCM::PeridigmManager (src/src/LCM/utils/PeridigmManager.cpp).           *)
(*                                                                         *)
(* One PeridigmManager per MPI rank.  initialize() is an SPMD routine: the *)
(* ranks run it independently and meet in Teuchos::reduceAll.  After it,   *)
(* the driver calls setCurrentTimeAndDisplacement / updateState /          *)
(* evaluateInternalForce / getForce on each rank.                          *)
(*                                                                         *)
(* Reals are exact: coordinates, displacements and times are integers,     *)
(* velocities are fractions in lowest terms.                               *)
(***************************************************************************)
EXTENDS Integers, Sequences, FiniteSets, TLC

VARIABLES
  cfg,        \* the run's input: communicator size, parameter list, mesh partition
  pc,         \* [rank -> where the rank is in initialize()]
  nReduce,    \* [rank -> number of reduceAll calls the rank has entered]
  localVal,   \* [rank -> localVal[0], the value contributed to the pending reduceAll]
  globalVal,  \* [rank -> globalVal[0], the result of the last completed reduceAll]
  loc,        \* [rank -> the locals of initialize() that live across the reductions]
  mgr,        \* [rank -> the fields of the rank's PeridigmManager]
  peridigm,   \* [rank -> the rank's PeridigmNS::Peridigm object, or Null]
  lastCall,   \* [rank -> the last public call made on the rank and its outcome]
  committed   \* [rank -> the time and the solver's positions at the rank's
              \*  last updateState (before the first: as initialize() left
              \*  them), and the setCurrentTimeAndDisplacement calls since]

vars == <<cfg, pc, nReduce, localVal, globalVal, loc, mgr, peridigm, lastCall, committed>>

----------------------------------------------------------------------------
\* Bounds of the model

\* largest communicator size
MaxProc == 2
\* times handed to setCurrentTimeAndDisplacement are 0..MaxTime
MaxTime == 1
\* the displacement fields handed to it are numbered 0..MaxField
MaxField == 1

----------------------------------------------------------------------------
\* Generic helpers

Null == "null"

Max(a, b) == IF a > b THEN a ELSE b

Abs(a) == IF a < 0 THEN -a ELSE a

RECURSIVE GCD(_, _)
GCD(a, b) == IF b = 0 THEN a ELSE GCD(b, a % b)

\* the quotient n/d of two doubles, exactly: a fraction in lowest terms for
\* d > 0; den = 0 stands for the IEEE results of a division by zero
Quot(n, d) ==
  IF d = 0
  THEN [num |-> IF n > 0 THEN 1 ELSE IF n < 0 THEN -1 ELSE 0, den |-> 0]
  ELSE LET g == GCD(Abs(n), d) IN [num |-> n \div g, den |-> d \div g]

Zero == [num |-> 0, den |-> 1]

\* std::map<K,V>::operator[] as an lvalue: insert or overwrite
MapPut(f, k, v) == [x \in (DOMAIN f) \cup {k} |-> IF x = k THEN v ELSE f[x]]

\* std::map<int,int>::operator[] as an rvalue: a missing key reads as int()
MapGet(f, k) == IF k \in DOMAIN f THEN f[k] ELSE 0

EmptyMap == [x \in {} |-> 0]

Range(s) == {s[i] : i \in DOMAIN s}

RECURSIVE SetMax(_)
SetMax(S) ==
  LET x == CHOOSE y \in S : TRUE
  IN IF S = {x} THEN x ELSE Max(x, SetMax(S \ {x}))

\* std::vector<double>(n): n zeros
Zeros(n) == [i \in 1..n |-> 0]

\* v[i] = x for a zero-based index i of a std::vector / Epetra_Vector
Put(v, i, x) == [v EXCEPT ![i + 1] = x]

\* v[i] for a zero-based index i
At(v, i) == v[i + 1]

----------------------------------------------------------------------------
\* The input of a run: the STK mesh, its partition, and the parameter list

Chars(n) == <<"b", "l", "o", "c", "k", "_", n>>

\* metaData->get_parts() restricted to element blocks, in part order, with
\* the "Model Name" the material database gives each block
StkElementBlocks ==
  << [name |-> Chars("1"), model |-> "Peridynamic Partial Stress"],
     [name |-> Chars("2"), model |-> "Peridynamics"],
     [name |-> Chars("3"), model |-> "Neohookean"] >>

\* the same blocks with a block whose name has no underscore
StkElementBlocksNoUnderscore ==
  << [name |-> Chars("1"), model |-> "Peridynamic Partial Stress"],
     [name |-> <<"b", "l", "o", "c", "k", "A">>, model |-> "Peridynamics"],
     [name |-> Chars("3"), model |-> "Neohookean"] >>

\* the same blocks with names whose last underscore is followed by a letter
\* and by nothing
StkElementBlocksNoNumber ==
  << [name |-> Chars("1"), model |-> "Peridynamic Partial Stress"],
     [name |-> Chars("A"), model |-> "Peridynamics"],
     [name |-> <<"b", "l", "o", "c", "k", "_">>, model |-> "Neohookean"] >>

\* the same blocks with model names that only resemble the peridynamic ones
StkElementBlocksOtherNames ==
  << [name |-> Chars("1"), model |-> "Peridynamic"],
     [name |-> Chars("2"), model |-> "peridynamics"],
     [name |-> Chars("3"), model |-> "Peridynamic Partial Stress "] >>

\* The element entities of the mesh: STK identifier (one-based), block
\* (index into the block list) and the STK identifiers of its nodes.
\* Solid elements have two nodes, sphere elements one.  The second solid
\* element of block 1 lists its nodes in descending order: it is inverted.
Elements ==
  << [id |-> 1, block |-> 1, nodes |-> <<1, 2>>],
     [id |-> 2, block |-> 2, nodes |-> <<3>>],
     [id |-> 4, block |-> 2, nodes |-> <<4>>],
     [id |-> 3, block |-> 1, nodes |-> <<5, 2>>],
     [id |-> 7, block |-> 3, nodes |-> <<5, 6>>],
     [id |-> 5, block |-> 2, nodes |-> <<4, 6>>] >>

NumElements == Len(Elements)

\* the solid element wrongly placed in the "Peridynamics" block
MultiNodeSphere == NumElements

\* the "coordinates" field: stk::mesh::field_data(*coordinatesField, node)
Coordinates(node) == <<3 * node, 6, 3 * (node % 2)>>

\* the "volume" field of a sphere element
ExodusVolume(elem) == 2 * elem

Ranks(c) == 0..(c.numProc - 1)

\* element i is owned by rank owner[i]; -1: the element is not in the mesh
Params(n, o, sub, db, blocks, dim, coordF, volF) ==
  [numProc |-> n, owner |-> o, hasPeridigmParameters |-> sub,
   hasMaterialDB |-> db, blocks |-> blocks, spatialDimension |-> dim,
   hasCoordinatesField |-> coordF, hasVolumeField |-> volF]

\* every partition of the well-formed elements over 1..MaxProc ranks
RegularConfigs ==
  UNION { { Params(n, o, TRUE, TRUE, StkElementBlocks, 3, TRUE, TRUE) :
              o \in { f \in [1..NumElements -> -1..(n - 1)] :
                        f[MultiNodeSphere] = -1 } } : n \in 1..MaxProc }

RoundRobin(n) == [i \in 1..NumElements |-> IF i = MultiNodeSphere THEN -1 ELSE (i - 1) % n]

\* runs whose input trips one of initialize()'s checks or early returns
IrregularConfigs ==
  UNION { { Params(n, RoundRobin(n), FALSE, TRUE, StkElementBlocks, 3, TRUE, TRUE),
            Params(n, RoundRobin(n), TRUE, FALSE, StkElementBlocks, 3, TRUE, TRUE),
            Params(n, RoundRobin(n), TRUE, TRUE, StkElementBlocksNoUnderscore, 3, TRUE, TRUE),
            Params(n, RoundRobin(n), TRUE, TRUE, StkElementBlocksOtherNames, 3, TRUE, TRUE),
            Params(n, RoundRobin(n), TRUE, TRUE, StkElementBlocksNoNumber, 3, TRUE, TRUE),
            Params(n, RoundRobin(n), TRUE, TRUE, StkElementBlocks, 2, TRUE, TRUE),
            Params(n, RoundRobin(n), TRUE, TRUE, StkElementBlocks, 3, FALSE, TRUE),
            Params(n, RoundRobin(n), TRUE, TRUE, StkElementBlocks, 3, TRUE, FALSE),
            Params(n, [RoundRobin(n) EXCEPT ![MultiNodeSphere] = 0], TRUE, TRUE,
                   StkElementBlocks, 3, TRUE, TRUE) } : n \in 1..MaxProc }

Configs == RegularConfigs \cup IrregularConfigs

\* the locally-owned elements of block b on rank r, in bucket order
elementsInElementBlock(c, r, b) ==
  SelectSeq([i \in 1..NumElements |-> i],
            LAMBDA i : c.owner[i] = r /\ Elements[i].block = b)

\* bulkData->identifier(entity) - 1
ZeroBased(stkId) == stkId - 1

----------------------------------------------------------------------------
\* The cubature of a solid element (Intrepid::DefaultCubatureFactory and
\* Intrepid::CellTools, called by the manager)

\* ShapeFunctions[qp][i] / ShapeDenominator is the value of node i's shape
\* function at quadrature point qp; each row sums to ShapeDenominator
ShapeFunctions == << <<2, 1>>, <<1, 2>> >>

ShapeDenominator == ShapeFunctions[1][1] + ShapeFunctions[1][2]

\* cubature->getNumPoints()
NumQuadPoints == Len(ShapeFunctions)

\* cellTopology.getNodeCount()
NodeCount == Len(ShapeFunctions[1])

\* mapToPhysicalFrame: component dof of quadrature point qp (one-based) for
\* the flat node coordinates cellWorkset (three per node)
PhysPoint(cellWorkset, qp, dof) ==
  ( ShapeFunctions[qp][1] * At(cellWorkset, dof)
    + ShapeFunctions[qp][2] * At(cellWorkset, 3 + dof) ) \div ShapeDenominator

----------------------------------------------------------------------------
\* initialize(), lines 24-172: up to the first reduceAll

\* blockName.find_last_of('_'): zero-based position, -1 for string::npos
FindLastOf(str, ch) ==
  LET hits == {i \in 1..Len(str) : str[i] = ch}
  IN IF hits = {} THEN -1 ELSE SetMax(hits) - 1

Digits == <<"0", "1", "2", "3", "4", "5", "6", "7", "8", "9">>

DigitValue(ch) == (CHOOSE i \in 1..10 : Digits[i] = ch) - 1

\* stringstream >> int on the characters str: the value of the leading digits
RECURSIVE ExtractInt(_, _, _)
ExtractInt(str, k, acc) ==
  IF k > Len(str) \/ str[k] \notin Range(Digits) THEN acc
  ELSE ExtractInt(str, k + 1, 10 * acc + DigitValue(str[k]))

\* line 99: "int bId;" has no initializer; the values it may hold
IndeterminateInt == {0, 9}

\* lines 98-100: operator>> reads the decimal digits at the start of the
\* suffix; on an empty suffix it stops before touching bId, and on a suffix
\* that starts with no digit it stores 0 (C++11) or leaves bId alone (C++03)
BlockId(blockName, loc_, indeterminate) ==
  LET suffix == SubSeq(blockName, loc_ + 2, Len(blockName))
  IN IF suffix = <<>> \/ suffix[1] \notin Range(Digits)
     THEN indeterminate
     ELSE ExtractInt(suffix, 1, 0)

\* the locals and fields initialize() has written when it starts
Pass1Start ==
  [blockNameToBlockId |-> EmptyMap,
   peridigmNodeGlobalIds |-> <<>>,
   peridigmGlobalIdToPeridigmLocalId |-> EmptyMap,
   peridynamicsBlocks |-> <<>>,
   peridynamicPartialStressBlocks |-> <<>>,
   classicalContinuumMechanicsBlocks |-> <<>>,
   numPartialStressIds |-> 0,
   maxAlbanyElementId |-> 0,
   maxAlbanyNodeId |-> 0,
   err |-> ""]

\* lines 119-128: one peridynamic point per sphere element of the block
RECURSIVE SphereNodes(_, _, _)
SphereNodes(els, k, s) ==
  IF k > Len(els) THEN s
  ELSE LET e == Elements[els[k]]
           numNodes == Len(e.nodes)
           globalId == ZeroBased(e.nodes[1])
           localId == Len(s.peridigmNodeGlobalIds)
       IN IF numNodes # 1 THEN [s EXCEPT !.err = "InvalidTopology"]
          ELSE SphereNodes(els, k + 1,
                 [s EXCEPT !.peridigmNodeGlobalIds = Append(@, globalId),
                           !.peridigmGlobalIdToPeridigmLocalId = MapPut(@, globalId, localId)])

\* lines 152-156: the largest node id of one element
RECURSIVE MaxNodeOf(_, _, _)
MaxNodeOf(nodes, i, m) ==
  IF i > Len(nodes) THEN m
  ELSE LET nodeId == ZeroBased(nodes[i])
       IN MaxNodeOf(nodes, i + 1, IF nodeId > m THEN nodeId ELSE m)

\* lines 146-157: track the max element and node id of the block's elements
RECURSIVE TrackMax(_, _, _)
TrackMax(els, k, s) ==
  IF k > Len(els) THEN s
  ELSE LET e == Elements[els[k]]
           elementId == ZeroBased(e.id)
       IN TrackMax(els, k + 1,
            [s EXCEPT !.maxAlbanyElementId = IF elementId > @ THEN elementId ELSE @,
                      !.maxAlbanyNodeId = MaxNodeOf(e.nodes, 1, @)])

MaterialModelName_NoDatabaseCheck(c, iBlock) == c.blocks[iBlock].model

\* lines 112-114
MaterialModelName(c, iBlock) ==
  IF c.hasMaterialDB THEN c.blocks[iBlock].model ELSE ""

\* lines 91-158: the first loop over the element blocks, from block iBlock on
RECURSIVE Pass1Blocks(_, _, _, _, _)
Pass1Blocks(c, r, iBlock, indeterminate, s) ==
  IF iBlock > Len(c.blocks) \/ s.err # "" THEN s
  ELSE
    LET blockName == c.blocks[iBlock].name
        locU == FindLastOf(blockName, "_")
        bId == BlockId(blockName, locU, indeterminate)
        els == elementsInElementBlock(c, r, iBlock)
        materialModelName == MaterialModelName(c, iBlock)
        s1 == [s EXCEPT !.blockNameToBlockId = MapPut(@, blockName, bId)]
        s2 == IF materialModelName = "Peridynamics"
              THEN SphereNodes(els, 1,
                     [s1 EXCEPT !.peridynamicsBlocks = Append(@, blockName)])
              ELSE IF materialModelName = "Peridynamic Partial Stress"
              THEN [s1 EXCEPT !.peridynamicPartialStressBlocks = Append(@, blockName),
                              !.numPartialStressIds = @ + NumQuadPoints * Len(els)]
              ELSE [s1 EXCEPT !.classicalContinuumMechanicsBlocks = Append(@, blockName)]
    IN IF locU = -1 THEN [s EXCEPT !.err = "ParseError"]
       ELSE IF s2.err # "" THEN s2
       ELSE Pass1Blocks(c, r, iBlock + 1, indeterminate, TrackMax(els, 1, s2))

\* lines 42-158
Pass1(c, r, indeterminate) ==
  IF c.spatialDimension # 3 \/ ~c.hasCoordinatesField
  THEN [Pass1Start EXCEPT !.err = "InvalidDiscretization"]
  ELSE Pass1Blocks(c, r, 1, indeterminate, Pass1Start)

\* lines 166-168: the rank's candidate for the first partial-stress id
LowestPossiblePartialStressId(maxAlbanyElementId, maxAlbanyNodeId) ==
  IF maxAlbanyNodeId > maxAlbanyElementId + 1
  THEN maxAlbanyNodeId + 1
  ELSE maxAlbanyElementId + 1

----------------------------------------------------------------------------
\* initialize(), lines 174-196: the partial-stress ids of a rank

CountContribution_Unguarded(pid, iProc, numPartialStressIds) == numPartialStressIds

\* lines 179-181: what rank pid contributes to the reduction for iProc
CountContribution(pid, iProc, numPartialStressIds) ==
  IF pid = iProc THEN numPartialStressIds ELSE 0

AdjustMinId_NoOffset(pid, iProc, minPeridigmPartialStressId, reduced) ==
  minPeridigmPartialStressId

\* lines 185-186: the rank's first id after the reduction for iProc
AdjustMinId(pid, iProc, minPeridigmPartialStressId, reduced) ==
  IF pid > iProc
  THEN minPeridigmPartialStressId + reduced
  ELSE minPeridigmPartialStressId

\* lines 189-196, from i on: s carries peridigmNodeGlobalIds,
\* peridigmPartialStressLocalIds and peridigmGlobalIdToPeridigmLocalId
RECURSIVE AssignPartialStressIds(_, _, _, _)
AssignPartialStressIds(i, numPartialStressIds, minPeridigmPartialStressId, s) ==
  IF i >= numPartialStressIds THEN s
  ELSE LET peridigmGlobalId == minPeridigmPartialStressId + i
           localId == Len(s.peridigmNodeGlobalIds)
       IN AssignPartialStressIds(i + 1, numPartialStressIds, minPeridigmPartialStressId,
            [s EXCEPT !.peridigmNodeGlobalIds = Append(@, peridigmGlobalId),
                      !.peridigmPartialStressLocalIds = Append(@, localId),
                      !.peridigmGlobalIdToPeridigmLocalId = MapPut(@, peridigmGlobalId, localId)])

----------------------------------------------------------------------------
\* initialize(), lines 223-364: the second loop over the element blocks

\* three values written at 3*localId .. 3*localId+2 of a flat vector
Put3(v, localId, xyz) ==
  Put(Put(Put(v, 3 * localId, xyz[1]), 3 * localId + 1, xyz[2]), 3 * localId + 2, xyz[3])

\* lines 249-266: position, volume and block id of the block's sphere points
RECURSIVE SpherePoints(_, _, _, _)
SpherePoints(els, k, bId, s) ==
  IF k > Len(els) THEN s
  ELSE LET e == Elements[els[k]]
           globalId == ZeroBased(e.nodes[1])
           localId == MapGet(s.peridigmGlobalIdToPeridigmLocalId, globalId)
       IN SpherePoints(els, k + 1, bId,
            [s EXCEPT !.blockId = Put(@, localId, bId),
                      !.cellVolume = Put(@, localId, ExodusVolume(e.id)),
                      !.initialX = Put3(@, localId, Coordinates(e.nodes[1])),
                      !.sphereElementGlobalNodeIds = Append(@, globalId)])

\* lines 325-329: cellWorkset, the flat coordinates of an element's nodes
CellWorkset(e) == Coordinates(e.nodes[1]) \o Coordinates(e.nodes[2])

\* setJacobianDet: the Jacobian determinant of the element at a quadrature point
JacobianDeterminant(cellWorkset, qp) == At(cellWorkset, 3) - At(cellWorkset, 0)

\* computeCellMeasure: Intrepid flips the sign of a cell whose first
\* determinant is negative; the cubature weights are 1
WeightedMeasure(cellWorkset, qp) ==
  IF JacobianDeterminant(cellWorkset, 1) < 0
  THEN -JacobianDeterminant(cellWorkset, qp)
  ELSE JacobianDeterminant(cellWorkset, qp)

\* lines 350-359: the quadrature points of one element, from qp on
RECURSIVE QuadPoints(_, _, _, _, _)
QuadPoints(qp, cellWorkset, bId, pse, s) ==
  IF qp > NumQuadPoints THEN [s EXCEPT !.partialStressElements = Append(@, pse)]
  ELSE LET localId == At(s.peridigmPartialStressLocalIds, s.peridigmPartialStressIndex)
           globalId == At(s.peridigmNodeGlobalIds, localId)
       IN QuadPoints(qp + 1, cellWorkset, bId,
            [pse EXCEPT !.peridigmGlobalIds = Append(@, globalId)],
            [s EXCEPT !.peridigmPartialStressIndex = @ + 1,
                      !.blockId = Put(@, localId, bId),
                      !.cellVolume = Put(@, localId, WeightedMeasure(cellWorkset, qp)),
                      !.initialX = Put3(@, localId,
                                        << PhysPoint(cellWorkset, qp, 0),
                                           PhysPoint(cellWorkset, qp, 1),
                                           PhysPoint(cellWorkset, qp, 2) >>)])

\* lines 321-362: the partial-stress elements of a block
RECURSIVE PartialStressPoints(_, _, _, _)
PartialStressPoints(els, k, bId, s) ==
  IF k > Len(els) THEN s
  ELSE LET e == Elements[els[k]]
           cellWorkset == CellWorkset(e)
           pse == [albanyElement |-> e.id,
                   albanyNodeInitialPositions |-> cellWorkset,
                   peridigmGlobalIds |-> <<>>]
       IN PartialStressPoints(els, k + 1, bId, QuadPoints(1, cellWorkset, bId, pse, s))

\* lines 229-364
RECURSIVE Pass2Blocks(_, _, _, _)
Pass2Blocks(c, r, iBlock, s) ==
  IF iBlock > Len(c.blocks) \/ s.err # "" THEN s
  ELSE
    LET blockName == c.blocks[iBlock].name
        bId == MapGet(s.blockNameToBlockId, blockName)
        els == elementsInElementBlock(c, r, iBlock)
        materialModelName == MaterialModelName(c, iBlock)
    IN IF materialModelName = "Peridynamics"
       THEN IF ~c.hasVolumeField
            THEN [s EXCEPT !.err = "InvalidDiscretization"]
            ELSE Pass2Blocks(c, r, iBlock + 1, SpherePoints(els, 1, bId, s))
       ELSE IF materialModelName = "Peridynamic Partial Stress"
       THEN Pass2Blocks(c, r, iBlock + 1, PartialStressPoints(els, 1, bId, s))
       ELSE Pass2Blocks(c, r, iBlock + 1, s)

----------------------------------------------------------------------------
\* initialize(), lines 366-403: the solver object and the lookup tables

\* Epetra_BlockMap::LID over the ids the discretization was built from: a
\* local index holding the id.  An id stored twice has two candidates.
LIDChoices(peridigmNodeGlobalIds) ==
  { f \in [Range(peridigmNodeGlobalIds) -> 0..(Len(peridigmNodeGlobalIds) - 1)] :
      \A g \in DOMAIN f : At(peridigmNodeGlobalIds, f[g]) = g }

\* new PeridigmNS::Peridigm(comm, params, AlbanyDiscretization(ids, x, volume, blockId))
NewPeridigm(lid, initialX, cellVolume, blockId) ==
  [LID |-> lid,
   x |-> initialX,
   y |-> initialX,
   u |-> Zeros(Len(initialX)),
   v |-> [i \in 1..Len(initialX) |-> Zero],
   force |-> Zeros(Len(initialX)),
   volume |-> cellVolume,
   blockId |-> blockId,
   timeStepSet |-> FALSE,
   timeStep |-> 0]

\* stkDisc->getElemGIDws(): global element id -> (workset, local id in the
\* workset); one workset per block with local elements
LocalBlocks(c, r) ==
  SelectSeq([b \in 1..Len(c.blocks) |-> b],
            LAMBDA b : Len(elementsInElementBlock(c, r, b)) > 0)

ElemGIDws(c, r) ==
  UNION { { [gid |-> ZeroBased(Elements[elementsInElementBlock(c, r, LocalBlocks(c, r)[w])[k]].id),
             ws |-> w - 1, LID |-> k - 1] :
              k \in 1..Len(elementsInElementBlock(c, r, LocalBlocks(c, r)[w])) } :
          w \in 1..Len(LocalBlocks(c, r)) }

\* lines 388-396: iterate the list in global-id order
RECURSIVE WorksetTable(_, _)
WorksetTable(entries, t) ==
  IF entries = {} \/ t.err # "" THEN t
  ELSE LET it == CHOOSE e \in entries : \A o \in entries : e.gid <= o.gid
           wsGIDs == IF it.ws \in DOMAIN t.map THEN t.map[it.ws] ELSE <<>>
       IN IF it.LID # Len(wsGIDs)
          THEN [t EXCEPT !.err = "UnexpectedWorksetLocalId"]
          ELSE WorksetTable(entries \ {it},
                 [t EXCEPT !.map = MapPut(@, it.ws, Append(wsGIDs, it.gid))])

RECURSIVE ElementToPeridigmIds_OneBased(_, _, _)
ElementToPeridigmIds_OneBased(partialStressElements, i, t) ==
  IF i > Len(partialStressElements) THEN t
  ELSE ElementToPeridigmIds_OneBased(partialStressElements, i + 1,
         MapPut(t, partialStressElements[i].albanyElement,
                partialStressElements[i].peridigmGlobalIds))

\* lines 399-403
RECURSIVE ElementToPeridigmIds(_, _, _)
ElementToPeridigmIds(partialStressElements, i, t) ==
  IF i > Len(partialStressElements) THEN t
  ELSE LET albanyGlobalElementId == ZeroBased(partialStressElements[i].albanyElement)
       IN ElementToPeridigmIds(partialStressElements, i + 1,
            MapPut(t, albanyGlobalElementId, partialStressElements[i].peridigmGlobalIds))

----------------------------------------------------------------------------
\* The state after construction (line 17) and the steps of initialize()

NewManager ==
  [hasPeridynamics |-> FALSE,
   previousTime |-> 0,
   currentTime |-> 0,
   timeStep |-> 0,
   cubatureDegree |-> -1,
   blockNameToBlockId |-> EmptyMap,
   peridigmNodeGlobalIds |-> <<>>,
   peridigmGlobalIdToPeridigmLocalId |-> EmptyMap,
   sphereElementGlobalNodeIds |-> <<>>,
   partialStressElements |-> <<>>,
   previousSolutionPositions |-> <<>>,
   worksetLocalIdToGlobalId |-> EmptyMap,
   albanyPartialStressElementGlobalIdToPeridigmGlobalIds |-> EmptyMap,
   outputFields |-> <<>>]

NoLocals ==
  [peridynamicsBlocks |-> <<>>,
   peridynamicPartialStressBlocks |-> <<>>,
   classicalContinuumMechanicsBlocks |-> <<>>,
   numPartialStressIds |-> 0,
   maxAlbanyElementId |-> 0,
   maxAlbanyNodeId |-> 0,
   lowestPossiblePartialStressId |-> 0,
   minPeridigmPartialStressId |-> 0,
   iProc |-> -1,
   err |-> ""]

\* a public call and what came of it; the fields a call does not have are 0
Call(op, time, field, id, dof, outcome, value) ==
  [op |-> op, time |-> time, field |-> field, id |-> id, dof |-> dof,
   outcome |-> outcome, value |-> value]

NoCall == Call("none", 0, 0, 0, 0, "", 0)

NothingCommitted == [updated |-> FALSE, time |-> 0, y |-> <<>>, calls |-> 0]

InitFor(configs) ==
  /\ cfg \in configs
  /\ pc = [r \in Ranks(cfg) |-> "start"]
  /\ nReduce = [r \in Ranks(cfg) |-> 0]
  /\ localVal = [r \in Ranks(cfg) |-> 0]
  /\ globalVal = [r \in Ranks(cfg) |-> 0]
  /\ loc = [r \in Ranks(cfg) |-> NoLocals]
  /\ mgr = [r \in Ranks(cfg) |-> NewManager]
  /\ peridigm = [r \in Ranks(cfg) |-> Null]
  /\ lastCall = [r \in Ranks(cfg) |-> NoCall]
  /\ committed = [r \in Ranks(cfg) |-> NothingCommitted]

Init == InitFor(Configs)

\* lines 24-171: rank pid runs initialize() up to its first reduceAll
Begin(pid) ==
  /\ pc[pid] = "start"
  /\ IF ~cfg.hasPeridigmParameters
     THEN /\ mgr' = [mgr EXCEPT ![pid].hasPeridynamics = FALSE]
          /\ pc' = [pc EXCEPT ![pid] = "returned"]
          /\ UNCHANGED <<nReduce, localVal, loc>>
     ELSE \E indeterminate \in IndeterminateInt :
          LET s == Pass1(cfg, pid, indeterminate)
              lowest == LowestPossiblePartialStressId(s.maxAlbanyElementId, s.maxAlbanyNodeId)
          IN /\ mgr' = [mgr EXCEPT
                  ![pid].cubatureDegree = 2,
                  ![pid].blockNameToBlockId = s.blockNameToBlockId,
                  ![pid].peridigmNodeGlobalIds = s.peridigmNodeGlobalIds,
                  ![pid].peridigmGlobalIdToPeridigmLocalId = s.peridigmGlobalIdToPeridigmLocalId]
             /\ loc' = [loc EXCEPT ![pid] =
                  [peridynamicsBlocks |-> s.peridynamicsBlocks,
                   peridynamicPartialStressBlocks |-> s.peridynamicPartialStressBlocks,
                   classicalContinuumMechanicsBlocks |-> s.classicalContinuumMechanicsBlocks,
                   numPartialStressIds |-> s.numPartialStressIds,
                   maxAlbanyElementId |-> s.maxAlbanyElementId,
                   maxAlbanyNodeId |-> s.maxAlbanyNodeId,
                   lowestPossiblePartialStressId |-> IF s.err = "" THEN lowest ELSE 0,
                   minPeridigmPartialStressId |-> 0,
                   iProc |-> -1,
                   err |-> s.err]]
             /\ IF s.err # ""
                THEN /\ pc' = [pc EXCEPT ![pid] = "threw"]
                     /\ UNCHANGED <<nReduce, localVal>>
                ELSE /\ pc' = [pc EXCEPT ![pid] = "inReduce"]
                     /\ nReduce' = [nReduce EXCEPT ![pid] = @ + 1]
                     /\ localVal' = [localVal EXCEPT ![pid] = lowest]
  /\ lastCall' = [lastCall EXCEPT ![pid] = Call("initialize", 0, 0, 0, 0, "", 0)]
  /\ UNCHANGED <<cfg, globalVal, peridigm, committed>>

\* Teuchos::reduceAll(comm, REDUCE_MAX, ...): completes once every rank of
\* the communicator has entered it, and gives each the maximum
ReduceMax(vals) == SetMax(Range(vals))

ReduceAll ==
  /\ \A r \in Ranks(cfg) : pc[r] = "inReduce"
  /\ globalVal' = [r \in Ranks(cfg) |-> ReduceMax([q \in 1..cfg.numProc |-> localVal[q - 1]])]
  /\ pc' = [r \in Ranks(cfg) |-> "gotResult"]
  /\ UNCHANGED <<cfg, nReduce, localVal, loc, mgr, peridigm, lastCall, committed>>

\* lines 172-182: the reduced lowest id, then the first pass of the loop
AfterLowestReduce(pid) ==
  /\ pc[pid] = "gotResult"
  /\ loc[pid].iProc = -1
  /\ loc' = [loc EXCEPT ![pid].lowestPossiblePartialStressId = globalVal[pid],
                        ![pid].minPeridigmPartialStressId = globalVal[pid],
                        ![pid].iProc = 0]
  /\ localVal' = [localVal EXCEPT ![pid] =
                    CountContribution(pid, 0, loc[pid].numPartialStressIds)]
  /\ nReduce' = [nReduce EXCEPT ![pid] = @ + 1]
  /\ pc' = [pc EXCEPT ![pid] = "inReduce"]
  /\ UNCHANGED <<cfg, globalVal, mgr, peridigm, lastCall, committed>>

NoPeridynamicBlocks_Never(locals) == FALSE

\* line 214: there are no sphere blocks and no partial-stress blocks
NoPeridynamicBlocks(locals) ==
  /\ Len(locals.peridynamicsBlocks) = 0
  /\ Len(locals.peridynamicPartialStressBlocks) = 0

\* lines 189-406: rank pid allocates its ids and builds the solver
FinishInitialize(pid, minPeridigmPartialStressId) ==
  LET m == mgr[pid]
      a == AssignPartialStressIds(0, loc[pid].numPartialStressIds, minPeridigmPartialStressId,
             [peridigmNodeGlobalIds |-> m.peridigmNodeGlobalIds,
              peridigmPartialStressLocalIds |-> <<>>,
              peridigmGlobalIdToPeridigmLocalId |-> m.peridigmGlobalIdToPeridigmLocalId])
      numIds == Len(a.peridigmNodeGlobalIds)
      p2 == Pass2Blocks(cfg, pid, 1,
              [blockNameToBlockId |-> m.blockNameToBlockId,
               peridigmNodeGlobalIds |-> a.peridigmNodeGlobalIds,
               peridigmPartialStressLocalIds |-> a.peridigmPartialStressLocalIds,
               peridigmGlobalIdToPeridigmLocalId |-> a.peridigmGlobalIdToPeridigmLocalId,
               peridigmPartialStressIndex |-> 0,
               initialX |-> Zeros(3 * numIds),
               cellVolume |-> Zeros(numIds),
               blockId |-> Zeros(numIds),
               sphereElementGlobalNodeIds |-> <<>>,
               partialStressElements |-> <<>>,
               err |-> ""])
      ws == WorksetTable(ElemGIDws(cfg, pid), [map |-> EmptyMap, err |-> ""])
      allocated == [m EXCEPT
                      !.peridigmNodeGlobalIds = a.peridigmNodeGlobalIds,
                      !.peridigmGlobalIdToPeridigmLocalId = a.peridigmGlobalIdToPeridigmLocalId]
      pass2 == [allocated EXCEPT
                  !.hasPeridynamics = TRUE,
                  !.sphereElementGlobalNodeIds = p2.sphereElementGlobalNodeIds,
                  !.partialStressElements = p2.partialStressElements]
      built == [pass2 EXCEPT
                  !.previousSolutionPositions = p2.initialX,
                  !.worksetLocalIdToGlobalId = ws.map]
  IN IF NoPeridynamicBlocks(loc[pid])
     THEN /\ mgr' = [mgr EXCEPT ![pid] = [allocated EXCEPT !.hasPeridynamics = FALSE]]
          /\ pc' = [pc EXCEPT ![pid] = "returned"]
          /\ UNCHANGED <<peridigm, committed>>
     ELSE IF p2.err # ""
     THEN /\ mgr' = [mgr EXCEPT ![pid] = pass2]
          /\ pc' = [pc EXCEPT ![pid] = "threw"]
          /\ UNCHANGED <<peridigm, committed>>
     ELSE \E lid \in LIDChoices(a.peridigmNodeGlobalIds) :
            /\ peridigm' = [peridigm EXCEPT ![pid] =
                              NewPeridigm(lid, p2.initialX, p2.cellVolume, p2.blockId)]
            /\ committed' = [committed EXCEPT ![pid].y = p2.initialX]
            /\ IF ws.err # ""
               THEN /\ mgr' = [mgr EXCEPT ![pid] = built]
                    /\ pc' = [pc EXCEPT ![pid] = "threw"]
               ELSE /\ mgr' = [mgr EXCEPT ![pid] =
                         [built EXCEPT !.albanyPartialStressElementGlobalIdToPeridigmGlobalIds =
                            ElementToPeridigmIds(p2.partialStressElements, 1, EmptyMap)]]
                    /\ pc' = [pc EXCEPT ![pid] = "done"]

\* lines 185-187 after the reduction for iProc, then either the next pass
\* of the loop (lines 179-182) or the rest of initialize()
AfterCountReduce(pid) ==
  /\ pc[pid] = "gotResult"
  /\ loc[pid].iProc >= 0
  /\ LET iProc == loc[pid].iProc
         minId == AdjustMinId(pid, iProc, loc[pid].minPeridigmPartialStressId, globalVal[pid])
     IN /\ loc' = [loc EXCEPT ![pid].minPeridigmPartialStressId = minId,
                              ![pid].iProc = iProc + 1]
        /\ IF iProc + 1 < cfg.numProc
           THEN /\ localVal' = [localVal EXCEPT ![pid] =
                      CountContribution(pid, iProc + 1, loc[pid].numPartialStressIds)]
                /\ nReduce' = [nReduce EXCEPT ![pid] = @ + 1]
                /\ pc' = [pc EXCEPT ![pid] = "inReduce"]
                /\ UNCHANGED <<mgr, peridigm, committed>>
           ELSE /\ FinishInitialize(pid, minId)
                /\ UNCHANGED <<localVal, nReduce>>
  /\ UNCHANGED <<cfg, globalVal, lastCall>>

Next ==
  \/ \E pid \in Ranks(cfg) : Begin(pid)
  \/ ReduceAll
  \/ \E pid \in Ranks(cfg) : AfterLowestReduce(pid)
  \/ \E pid \in Ranks(cfg) : AfterCountReduce(pid)

Spec == Init /\ [][Next]_vars

----------------------------------------------------------------------------
\* What the claims about the id allocation speak of

\* rank r has run lines 189-196
IdsAssigned(r) == loc[r].iProc = cfg.numProc

\* the ids lines 190-196 pushed on rank r, in order
PartialStressIds(r) ==
  IF IdsAssigned(r)
  THEN LET ids == mgr[r].peridigmNodeGlobalIds
       IN SubSeq(ids, Len(ids) - loc[r].numPartialStressIds + 1, Len(ids))
  ELSE <<>>

InMesh == {i \in 1..NumElements : cfg.owner[i] # -1}

\* the zero-based element and node ids of the whole mesh
MeshElementIds == {ZeroBased(Elements[i].id) : i \in InMesh}

MeshNodeIds == UNION {{ZeroBased(n) : n \in Range(Elements[i].nodes)} : i \in InMesh}

\* the number of quadrature points of the partial-stress elements rank q owns
LocalPointCount(q) ==
  NumQuadPoints *
    Cardinality({i \in InMesh : /\ cfg.owner[i] = q
                                /\ cfg.hasMaterialDB
                                /\ cfg.blocks[Elements[i].block].model
                                     = "Peridynamic Partial Stress"})

RECURSIVE PointsBelow(_)
PointsBelow(r) == IF r = 0 THEN 0 ELSE PointsBelow(r - 1) + LocalPointCount(r - 1)

\* C1: every partial-stress id is above every element id and every node id
\* of the mesh, and the range starts at max(maxElementId, maxNodeId) + 1
C1_IdsAboveMesh ==
  \A r \in Ranks(cfg) :
    IdsAssigned(r) =>
      /\ \A id \in Range(PartialStressIds(r)) :
           \A meshId \in MeshElementIds \cup MeshNodeIds : id > meshId
      /\ PartialStressIds(r) # <<>> =>
           loc[r].lowestPossiblePartialStressId
             = SetMax(MeshElementIds \cup MeshNodeIds) + 1

\* C2: no partial-stress id is emitted by two ranks
C2_RanksDisjoint ==
  \A r, q \in Ranks(cfg) :
    r # q => Range(PartialStressIds(r)) \cap Range(PartialStressIds(q)) = {}

C2_Witness ==
  \E r, q \in Ranks(cfg) :
    /\ r # q
    /\ IdsAssigned(r) /\ PartialStressIds(r) # <<>>
    /\ IdsAssigned(q) /\ PartialStressIds(q) # <<>>

\* C3: rank r holds L + S(r), ..., L + S(r) + n_r - 1, and once every rank
\* has its ids their union is the interval from L to L + sum of all n_q - 1
C3_ContiguousBlocks ==
  /\ \A r \in Ranks(cfg) :
       IdsAssigned(r) =>
         PartialStressIds(r) =
           [i \in 1..LocalPointCount(r) |->
              loc[r].lowestPossiblePartialStressId + PointsBelow(r) + i - 1]
  /\ (\A r \in Ranks(cfg) : IdsAssigned(r)) =>
       UNION {Range(PartialStressIds(r)) : r \in Ranks(cfg)}
         = loc[0].lowestPossiblePartialStressId
             .. (loc[0].lowestPossiblePartialStressId + PointsBelow(cfg.numProc) - 1)

C3_Witness ==
  /\ cfg.numProc > 1
  /\ \A r \in Ranks(cfg) : IdsAssigned(r)
  /\ PointsBelow(cfg.numProc - 1) > 0
  /\ LocalPointCount(cfg.numProc - 1) > 0
  /\ PartialStressIds(cfg.numProc - 1)[1]
       = loc[0].lowestPossiblePartialStressId + PointsBelow(cfg.numProc - 1)

\* C4: no rank waits in a reduceAll that another rank, having left
\* initialize(), never enters; a rank that completes the loop has entered
\* one reduction for the lowest id and one per rank index
C4_SameReductions ==
  /\ \A r, q \in Ranks(cfg) :
       ~( /\ pc[r] = "inReduce"
          /\ pc[q] \in {"threw", "returned", "done"}
          /\ nReduce[q] < nReduce[r] )
  /\ \A r \in Ranks(cfg) : IdsAssigned(r) => nReduce[r] = 1 + cfg.numProc

----------------------------------------------------------------------------
\* The mesh-side solution vector handed to setCurrentTimeAndDisplacement

\* the displacement of a node in the f-th solution the driver hands over;
\* solution 0 is the zero field, the others stretch the mesh
Displacement(f, node) ==
  <<ShapeDenominator * f, ShapeDenominator * f * (node + 1), -ShapeDenominator * f>>

RECURSIVE SortedSeq(_)
SortedSeq(S) ==
  IF S = {} THEN <<>>
  ELSE LET m == CHOOSE x \in S : \A y \in S : x <= y
       IN <<m>> \o SortedSeq(S \ {m})

\* albanySolutionVector->getMap(): the nodes of the rank's elements in
\* ascending order, three interleaved dofs per node
AlbanyMap(c, r) ==
  SortedSeq(UNION { {ZeroBased(n) : n \in Range(Elements[i].nodes)} :
                      i \in {j \in 1..NumElements : c.owner[j] = r} })

\* albanyMap->getLocalElement(globalDof); -1 is OrdinalTraits<LO>::invalid()
getLocalElement(albanyMap, globalDof) ==
  IF \E k \in DOMAIN albanyMap : albanyMap[k] = globalDof \div 3
  THEN 3 * ((CHOOSE k \in DOMAIN albanyMap : albanyMap[k] = globalDof \div 3) - 1)
         + (globalDof % 3)
  ELSE -1

\* albanySolutionVector->getData() for solution f
SolutionData(albanyMap, f) ==
  [i \in 1..(3 * Len(albanyMap)) |->
     Displacement(f, albanyMap[(i - 1) \div 3 + 1])[((i - 1) % 3) + 1]]

\* bulkData->begin_nodes(element) for the element with a given STK id
ElementById(stkId) ==
  Elements[CHOOSE i \in 1..NumElements : Elements[i].id = stkId]

----------------------------------------------------------------------------
\* setCurrentTimeAndDisplacement(), lines 535-653

TimeStep_ZeroKept(currentTime, previousTime) ==
  IF currentTime - previousTime < 0 THEN 1 ELSE currentTime - previousTime

\* lines 540-544
TimeStep(currentTime, previousTime) ==
  IF currentTime - previousTime <= 0 THEN 1 ELSE currentTime - previousTime

CurrentPosition_Incremented(p, i) == At(p.y, i) + At(p.u, i)

\* lines 568-570: component i of a sphere point's current position
CurrentPosition(p, i) == At(p.x, i) + At(p.u, i)

Velocity_FromReference(p, previousSolutionPositions, i, timeStep) ==
  Quot(At(p.y, i) - At(p.x, i), timeStep)

\* lines 571-573 and 647-649: component i of a point's velocity
Velocity(p, previousSolutionPositions, i, timeStep) ==
  Quot(At(p.y, i) - At(previousSolutionPositions, i), timeStep)

\* Epetra_BlockMap::LID(globalId): -1 for an id the map does not hold
LID(p, globalId) == IF globalId \in DOMAIN p.LID THEN p.LID[globalId] ELSE -1

\* lines 565-573 for component dof of one sphere point
SphereDof(p, peridigmLocalId, albanyLocalId, dof, data, m) ==
  LET i == 3 * peridigmLocalId + dof
      p1 == [p EXCEPT !.u = Put(@, i, At(data, albanyLocalId + dof))]
      p2 == [p1 EXCEPT !.y = Put(@, i, CurrentPosition(p1, i))]
  IN [p2 EXCEPT !.v = Put(@, i, Velocity(p2, m.previousSolutionPositions, i, m.timeStep))]

\* lines 559-574, from sphere i on; s carries the solver and the error raised
RECURSIVE SphereLoop(_, _, _, _, _)
SphereLoop(i, m, albanyMap, data, s) ==
  IF i >= Len(m.sphereElementGlobalNodeIds) \/ s.err # "" THEN s
  ELSE LET globalId == At(m.sphereElementGlobalNodeIds, i)
           peridigmLocalId == LID(s.p, globalId)
           albanyLocalId == getLocalElement(albanyMap, 3 * globalId)
       IN IF peridigmLocalId = -1
          THEN [s EXCEPT !.err = "InvalidPeridigmLocalId"]
          ELSE IF albanyLocalId = -1
          THEN [s EXCEPT !.err = "InvalidAlbanyLocalId"]
          ELSE SphereLoop(i + 1, m, albanyMap, data,
                 [s EXCEPT !.p =
                    SphereDof(SphereDof(SphereDof(@, peridigmLocalId, albanyLocalId, 0, data, m),
                                        peridigmLocalId, albanyLocalId, 1, data, m),
                              peridigmLocalId, albanyLocalId, 2, data, m)])

\* lines 627-633: the element's initial node positions moved by the solution
CurrentCellWorkset(pse, albanyMap, data) ==
  [k \in 1..Len(pse.albanyNodeInitialPositions) |->
     LET i == (k - 1) \div 3
         dof == (k - 1) % 3
         globalAlbanyNodeId == ZeroBased(ElementById(pse.albanyElement).nodes[i + 1])
         albanyCurrentDisplacementIndex == getLocalElement(albanyMap, 3 * globalAlbanyNodeId)
     IN pse.albanyNodeInitialPositions[k] + At(data, albanyCurrentDisplacementIndex + dof)]

\* lines 641-649 for component dof of one quadrature point
PartialStressDof(p, peridigmLocalId, qp, dof, cellWorkset, m) ==
  LET i == 3 * peridigmLocalId + dof
      p1 == [p EXCEPT !.y = Put(@, i, PhysPoint(cellWorkset, qp, dof))]
      p2 == [p1 EXCEPT !.u = Put(@, i, At(p1.y, i) - At(p1.x, i))]
  IN [p2 EXCEPT !.v = Put(@, i, Velocity(p2, m.previousSolutionPositions, i, m.timeStep))]

\* std::map<int,int>::operator[] as a statement: a missing key is inserted
\* with the value int()
MapIndex(f, k) == IF k \in DOMAIN f THEN f ELSE MapPut(f, k, 0)

\* lines 638-650, from point i on; s also carries
\* peridigmGlobalIdToPeridigmLocalId, which line 639 indexes
RECURSIVE PartialStressPointLoop(_, _, _, _, _)
PartialStressPointLoop(i, pse, cellWorkset, m, s) ==
  IF i >= Len(pse.peridigmGlobalIds) \/ s.err # "" THEN s
  ELSE LET s1 == [s EXCEPT !.peridigmGlobalIdToPeridigmLocalId =
                               MapIndex(@, At(pse.peridigmGlobalIds, i))]
           peridigmLocalId ==
             MapGet(s1.peridigmGlobalIdToPeridigmLocalId, At(pse.peridigmGlobalIds, i))
       IN IF peridigmLocalId = -1
          THEN [s1 EXCEPT !.err = "InvalidPeridigmLocalId"]
          ELSE PartialStressPointLoop(i + 1, pse, cellWorkset, m,
                 [s1 EXCEPT !.p =
                    PartialStressDof(PartialStressDof(PartialStressDof(
                        @, peridigmLocalId, i + 1, 0, cellWorkset, m),
                           peridigmLocalId, i + 1, 1, cellWorkset, m),
                           peridigmLocalId, i + 1, 2, cellWorkset, m)])

\* lines 578-651, from element k on
RECURSIVE PartialStressLoop(_, _, _, _, _)
PartialStressLoop(k, m, albanyMap, data, s) ==
  IF k > Len(m.partialStressElements) \/ s.err # "" THEN s
  ELSE LET it == m.partialStressElements[k]
       IN PartialStressLoop(k + 1, m, albanyMap, data,
            PartialStressPointLoop(0, it, CurrentCellWorkset(it, albanyMap, data), m, s))

SetTimes_Committing(m, time) ==
  [m EXCEPT !.currentTime = time,
            !.timeStep = TimeStep(time, m.previousTime),
            !.previousTime = time]

\* lines 539-544: the times the manager keeps
SetTimes(m, time) ==
  [m EXCEPT !.currentTime = time, !.timeStep = TimeStep(time, m.previousTime)]

\* the body of lines 537-652: the manager, the solver and the error raised
setCurrentTimeAndDisplacement(m, p, time, albanyMap, data) ==
  LET m1 == SetTimes(m, time)
      p1 == [p EXCEPT !.timeStep = m1.timeStep, !.timeStepSet = TRUE]
      s == PartialStressLoop(1, m1, albanyMap, data,
             SphereLoop(0, m1, albanyMap, data,
               [p |-> p1, err |-> "",
                peridigmGlobalIdToPeridigmLocalId |-> m1.peridigmGlobalIdToPeridigmLocalId]))
  IN [m |-> [m1 EXCEPT !.peridigmGlobalIdToPeridigmLocalId =
                         s.peridigmGlobalIdToPeridigmLocalId],
      p |-> s.p, err |-> s.err]

----------------------------------------------------------------------------
\* updateState(), evaluateInternalForce(), getForce()

CommitPositions_Kept(previousSolutionPositions, peridigmY) ==
  [i \in 1..Len(previousSolutionPositions) |-> previousSolutionPositions[i]]

\* lines 660-661
CommitPositions(previousSolutionPositions, peridigmY) ==
  [i \in 1..Len(previousSolutionPositions) |-> peridigmY[i]]

\* peridigm->updateState(): the solver swaps the step-N and step-N+1 data of
\* its blocks; x, y, u, v and force stay as they are
updateState(p) == p

\* peridigm->computeInternalForce(): the solver fills its force vector
computeInternalForce(p) == [p EXCEPT !.force = [i \in 1..Len(p.x) |-> i]]

getForce_Unchecked(m, p, globalAlbanyNodeId, dof) ==
  IF m.hasPeridynamics /\ LID(p, globalAlbanyNodeId) # -1
  THEN [outcome |-> "ok", value |-> At(p.force, 3 * LID(p, globalAlbanyNodeId) + dof)]
  ELSE [outcome |-> "ok", value |-> 0]

getForce_Unguarded(m, p, globalAlbanyNodeId, dof) ==
  IF m.hasPeridynamics /\ LID(p, globalAlbanyNodeId) # -1
  THEN [outcome |-> "ok", value |-> At(p.force, 3 * LID(p, globalAlbanyNodeId) + dof)]
  ELSE [outcome |-> "InvalidId", value |-> 0]

\* lines 678-689
getForce(m, p, globalAlbanyNodeId, dof) ==
  IF m.hasPeridynamics
  THEN LET peridigmLocalId == LID(p, globalAlbanyNodeId)
       IN IF peridigmLocalId = -1
          THEN [outcome |-> "InvalidId", value |-> 0]
          ELSE [outcome |-> "ok", value |-> At(p.force, 3 * peridigmLocalId + dof)]
  ELSE [outcome |-> "ok", value |-> 0]

----------------------------------------------------------------------------
\* The driver's calls on a rank that is not inside initialize()

\* single-rank runs: a partial-stress element and a sphere; the same with
\* the sphere on the node next above the highest element id; spheres only;
\* no material database; no "Peridigm Parameters" sublist
DriverConfigs ==
  { Params(1, <<0, -1, 0, -1, -1, -1>>, TRUE, TRUE, StkElementBlocks, 3, TRUE, TRUE),
    Params(1, <<0, 0, -1, -1, -1, -1>>, TRUE, TRUE, StkElementBlocks, 3, TRUE, TRUE),
    Params(1, <<-1, 0, 0, -1, -1, -1>>, TRUE, TRUE, StkElementBlocks, 3, TRUE, TRUE),
    Params(1, <<0, -1, 0, -1, -1, -1>>, TRUE, FALSE, StkElementBlocks, 3, TRUE, TRUE),
    Params(1, <<0, -1, 0, -1, -1, -1>>, FALSE, TRUE, StkElementBlocks, 3, TRUE, TRUE) }

InitDriver == InitFor(DriverConfigs)

Callable(pid) == pc[pid] \in {"start", "done", "returned"}

\* the ids the driver asks getForce about: the second node of the first
\* solid element, which no run makes a peridynamic point, and the id of a
\* peridynamic point of every run that has any
GetForceIds == {ZeroBased(Elements[1].nodes[2]), ZeroBased(Elements[1].nodes[2]) + 2}

SetCurrentTimeAndDisplacement(pid) ==
  /\ Callable(pid)
  /\ \E time \in 0..MaxTime, f \in 0..MaxField :
       IF mgr[pid].hasPeridynamics
       THEN LET albanyMap == AlbanyMap(cfg, pid)
                r == setCurrentTimeAndDisplacement(mgr[pid], peridigm[pid], time,
                                                   albanyMap, SolutionData(albanyMap, f))
            IN /\ mgr' = [mgr EXCEPT ![pid] = r.m]
               /\ peridigm' = [peridigm EXCEPT ![pid] = r.p]
               /\ pc' = [pc EXCEPT ![pid] = IF r.err = "" THEN @ ELSE "threw"]
               /\ lastCall' = [lastCall EXCEPT ![pid] =
                    Call("setCurrentTimeAndDisplacement", time, f, 0, 0,
                         IF r.err = "" THEN "ok" ELSE r.err, 0)]
               /\ committed' = [committed EXCEPT ![pid].calls = IF @ < 2 THEN @ + 1 ELSE @]
       ELSE /\ lastCall' = [lastCall EXCEPT ![pid] =
                 Call("setCurrentTimeAndDisplacement", time, f, 0, 0, "ok", 0)]
            /\ UNCHANGED <<mgr, peridigm, pc, committed>>
  /\ UNCHANGED <<cfg, nReduce, localVal, globalVal, loc>>

\* lines 655-664
UpdateState(pid) ==
  /\ Callable(pid)
  /\ IF mgr[pid].hasPeridynamics
     THEN /\ mgr' = [mgr EXCEPT
               ![pid].previousTime = mgr[pid].currentTime,
               ![pid].previousSolutionPositions =
                  CommitPositions(mgr[pid].previousSolutionPositions, peridigm[pid].y)]
          /\ committed' = [committed EXCEPT ![pid] =
               [updated |-> TRUE, time |-> mgr[pid].currentTime,
                y |-> peridigm[pid].y, calls |-> 0]]
          /\ peridigm' = [peridigm EXCEPT ![pid] = updateState(@)]
     ELSE UNCHANGED <<mgr, committed, peridigm>>
  /\ lastCall' = [lastCall EXCEPT ![pid] = Call("updateState", 0, 0, 0, 0, "ok", 0)]
  /\ UNCHANGED <<cfg, pc, nReduce, localVal, globalVal, loc>>

\* lines 672-676
EvaluateInternalForce(pid) ==
  /\ Callable(pid)
  /\ IF mgr[pid].hasPeridynamics
     THEN peridigm' = [peridigm EXCEPT ![pid] = computeInternalForce(@)]
     ELSE UNCHANGED peridigm
  /\ lastCall' = [lastCall EXCEPT ![pid] = Call("evaluateInternalForce", 0, 0, 0, 0, "ok", 0)]
  /\ UNCHANGED <<cfg, pc, nReduce, localVal, globalVal, loc, mgr, committed>>

\* lines 678-689
GetForce(pid) ==
  /\ Callable(pid)
  /\ \E globalAlbanyNodeId \in GetForceIds, dof \in 0..2 :
       LET r == getForce(mgr[pid], peridigm[pid], globalAlbanyNodeId, dof)
       IN /\ lastCall' = [lastCall EXCEPT ![pid] =
               Call("getForce", 0, 0, globalAlbanyNodeId, dof, r.outcome, r.value)]
          /\ pc' = [pc EXCEPT ![pid] = IF r.outcome = "ok" THEN @ ELSE "threw"]
  /\ UNCHANGED <<cfg, nReduce, localVal, globalVal, loc, mgr, peridigm, committed>>

NextDriver ==
  \/ Next
  \/ \E pid \in Ranks(cfg) : SetCurrentTimeAndDisplacement(pid)
  \/ \E pid \in Ranks(cfg) : UpdateState(pid)
  \/ \E pid \in Ranks(cfg) : EvaluateInternalForce(pid)
  \/ \E pid \in Ranks(cfg) : GetForce(pid)

SpecDriver == InitDriver /\ [][NextDriver]_vars

----------------------------------------------------------------------------
\* What the claims about the driver's calls speak of

\* rank r's last call was a setCurrentTimeAndDisplacement that went through
\* with peridynamics present
SetDone(r) ==
  /\ pc[r] = "done"
  /\ mgr[r].hasPeridynamics
  /\ lastCall[r].op = "setCurrentTimeAndDisplacement"
  /\ lastCall[r].outcome = "ok"

\* the exact quotient n/d, for either sign of d
Ratio(n, d) == IF d < 0 THEN Quot(-n, -d) ELSE Quot(n, d)

\* the time step the claims expect for a call at time t
PositiveStep(t, previousTime) == IF t - previousTime > 0 THEN t - previousTime ELSE 1

\* the solver slots the partial-stress loop of lines 638-650 writes
PartialStressSlots(r) ==
  { MapGet(mgr[r].peridigmGlobalIdToPeridigmLocalId, g) :
      g \in UNION { Range(mgr[r].partialStressElements[k].peridigmGlobalIds) :
                      k \in DOMAIN mgr[r].partialStressElements } }

\* component d of the quadrature point kept in a slot, computed from the
\* initial node positions of its element
QuadratureImage(r, slot, d) ==
  LET at == CHOOSE ki \in (DOMAIN mgr[r].partialStressElements) \X (1..NumQuadPoints) :
              MapGet(mgr[r].peridigmGlobalIdToPeridigmLocalId,
                     mgr[r].partialStressElements[ki[1]].peridigmGlobalIds[ki[2]]) = slot
  IN PhysPoint(mgr[r].partialStressElements[at[1]].albanyNodeInitialPositions, at[2], d)

\* C5: after setCurrentTimeAndDisplacement(time, u) the point of every sphere
\* with node id g has the displacement u holds for node g, the position of
\* node g in the mesh plus that displacement, and the velocity
\* (position - previousSolutionPositions) / timeStep
C5_SpherePoints ==
  \A r \in Ranks(cfg) :
    SetDone(r) =>
      \A k \in DOMAIN mgr[r].sphereElementGlobalNodeIds :
        LET g == mgr[r].sphereElementGlobalNodeIds[k]
            slot == peridigm[r].LID[g]
            displacement == Displacement(lastCall[r].field, g)
            reference == Coordinates(g + 1)
        IN \A d \in 0..2 :
             /\ At(peridigm[r].u, 3 * slot + d) = displacement[d + 1]
             /\ At(peridigm[r].y, 3 * slot + d) = reference[d + 1] + displacement[d + 1]
             /\ At(peridigm[r].v, 3 * slot + d)
                  = Ratio(At(peridigm[r].y, 3 * slot + d)
                            - At(mgr[r].previousSolutionPositions, 3 * slot + d),
                          mgr[r].timeStep)

\* C6: the time step is time - previousTime when that is positive and 1
\* otherwise; the step the solver holds and every velocity divisor are
\* strictly positive after any sequence of calls
C6_TimeStepPositive ==
  \A r \in Ranks(cfg) :
    pc[r] = "done" /\ peridigm[r].timeStepSet =>
      /\ peridigm[r].timeStep > 0
      /\ peridigm[r].timeStep = mgr[r].timeStep
      /\ \A i \in DOMAIN peridigm[r].v : peridigm[r].v[i].den > 0
      /\ SetDone(r) =>
           mgr[r].timeStep = PositiveStep(lastCall[r].time, mgr[r].previousTime)

C6_Witness ==
  \E r \in Ranks(cfg) :
    /\ SetDone(r)
    /\ committed[r].updated
    /\ mgr[r].previousTime > 0
    /\ lastCall[r].time <= mgr[r].previousTime
    /\ mgr[r].timeStep = 1

\* C7 as stated: after an updateState, the velocity the next
\* setCurrentTimeAndDisplacement(t, u) computes is (position for u - position
\* at the last updateState) / (t - time at the last updateState)
C7_VelocityFromLastUpdate ==
  \A r \in Ranks(cfg) :
    SetDone(r) /\ committed[r].updated =>
      /\ mgr[r].previousTime = committed[r].time
      /\ mgr[r].previousSolutionPositions = committed[r].y
      /\ \A i \in DOMAIN peridigm[r].v :
           peridigm[r].v[i] = Ratio(peridigm[r].y[i] - committed[r].y[i],
                                    lastCall[r].time - committed[r].time)

\* C7 amended: updateState commits the current time and positions, and the
\* next velocity is (position for u - position at the last updateState)
\* divided by t - time at the last updateState when that is positive and by
\* 1 otherwise
C7_VelocityFromLastUpdateAmended ==
  \A r \in Ranks(cfg) :
    SetDone(r) /\ committed[r].updated =>
      /\ mgr[r].previousTime = committed[r].time
      /\ mgr[r].previousSolutionPositions = committed[r].y
      /\ \A i \in DOMAIN peridigm[r].v :
           peridigm[r].v[i] = Ratio(peridigm[r].y[i] - committed[r].y[i],
                                    PositiveStep(lastCall[r].time, committed[r].time))

\* an iteration of the step whose displaced positions updateState committed
C7_Witness ==
  \E r \in Ranks(cfg) :
    /\ SetDone(r)
    /\ committed[r].updated
    /\ committed[r].time > 0
    /\ committed[r].y # peridigm[r].x
    /\ lastCall[r].time = committed[r].time
    /\ \E i \in DOMAIN peridigm[r].v : peridigm[r].v[i] # Zero

\* C8: after setCurrentTimeAndDisplacement(t, u) the time step and every
\* point's position, displacement and velocity are what one call with (t, u)
\* produces from the time and positions of the last updateState, whatever
\* the calls since then put into the solver
C8_CompleteOverwrite ==
  \A r \in Ranks(cfg) :
    SetDone(r) =>
      LET left == [peridigm[r] EXCEPT !.y = committed[r].y,
                                      !.u = Zeros(Len(@)),
                                      !.v = [i \in DOMAIN @ |-> Zero]]
          start == [mgr[r] EXCEPT !.previousTime = committed[r].time,
                                  !.previousSolutionPositions = committed[r].y]
          albanyMap == AlbanyMap(cfg, r)
          once == setCurrentTimeAndDisplacement(start, left, lastCall[r].time, albanyMap,
                                                SolutionData(albanyMap, lastCall[r].field))
      IN /\ mgr[r].timeStep = once.m.timeStep
         /\ peridigm[r].timeStep = once.p.timeStep
         /\ peridigm[r].y = once.p.y
         /\ peridigm[r].u = once.p.u
         /\ peridigm[r].v = once.p.v

\* a second or later call since the last updateState, with a field that moves
C8_Witness ==
  \E r \in Ranks(cfg) :
    /\ SetDone(r)
    /\ committed[r].updated
    /\ committed[r].calls = 2
    /\ lastCall[r].field # 0
    /\ peridigm[r].y # committed[r].y

C10_GetForceUnregistered ==
  \A r \in Ranks(cfg) :
    /\ lastCall[r].op = "getForce"
    /\ lastCall[r].id \notin Range(mgr[r].peridigmNodeGlobalIds)
    => lastCall[r].outcome = "InvalidId"

\* C10 amended: getForce on an id that is not a peridynamic point ends in
\* InvalidId when hasPeridynamics is true, and returns 0.0 when it is false
C10_GetForceAmended ==
  \A r \in Ranks(cfg) :
    /\ lastCall[r].op = "getForce"
    /\ lastCall[r].id \notin Range(mgr[r].peridigmNodeGlobalIds)
    => IF mgr[r].hasPeridynamics
       THEN lastCall[r].outcome = "InvalidId"
       ELSE lastCall[r].outcome = "ok" /\ lastCall[r].value = 0

C10_Witness ==
  \E r \in Ranks(cfg) :
    /\ lastCall[r].op = "getForce"
    /\ lastCall[r].id \notin Range(mgr[r].peridigmNodeGlobalIds)
    /\ mgr[r].hasPeridynamics
    /\ lastCall[r].outcome = "InvalidId"

----------------------------------------------------------------------------
\* The calls on a manager without peridynamics

\* C11: while hasPeridynamics is false, setCurrentTimeAndDisplacement,
\* updateState and evaluateInternalForce change no field of the manager (and
\* no solver exists to change), and getForce returns 0.0 for every id and
\* dof without an error
C11_NoOpsWithoutPeridynamics ==
  [][ \A r \in Ranks(cfg) :
        ~mgr[r].hasPeridynamics =>
          /\ ( \/ SetCurrentTimeAndDisplacement(r)
               \/ UpdateState(r)
               \/ EvaluateInternalForce(r)
               \/ GetForce(r) )
             => /\ mgr'[r] = mgr[r]
                /\ peridigm'[r] = peridigm[r]
                /\ committed'[r] = committed[r]
                /\ pc'[r] = pc[r]
          /\ GetForce(r) => /\ lastCall'[r].outcome = "ok"
                            /\ lastCall'[r].value = 0 ]_vars

\* one of the four calls has returned on a manager whose initialize() found
\* nothing peridynamic
C11_Witness ==
  \E r \in Ranks(cfg) :
    /\ pc[r] = "returned"
    /\ ~mgr[r].hasPeridynamics
    /\ lastCall[r].op \in {"setCurrentTimeAndDisplacement", "updateState",
                           "evaluateInternalForce", "getForce"}
    /\ lastCall[r].outcome = "ok"

----------------------------------------------------------------------------
\* getPartialStress(), lines 691-707

\* the ids in the map of peridigm->getBlockData(blockName, ...): the points
\* the discretization was told are in the block of that name
BlockMapIds(m, p, blockName) ==
  { At(m.peridigmNodeGlobalIds, slot) :
      slot \in { s \in 0..(Len(m.peridigmNodeGlobalIds) - 1) :
                   At(p.blockId, s) = MapGet(m.blockNameToBlockId, blockName) } }

\* lines 699-705 from point i on: the number of rows of partialStressValues
\* written, and the error raised
RECURSIVE CopyPartialStress(_, _, _, _)
CopyPartialStress(i, peridigmGlobalIds, blockMapIds, s) ==
  IF i >= Len(peridigmGlobalIds) \/ s.outcome # "ok" THEN s
  ELSE IF At(peridigmGlobalIds, i) \notin blockMapIds
       THEN [s EXCEPT !.outcome = "InvalidId"]
       ELSE CopyPartialStress(i + 1, peridigmGlobalIds, blockMapIds,
                              [s EXCEPT !.rows = @ + 1])

\* lines 693-706; std::map::operator[] at line 696 inserts an empty vector
\* for an element id the table does not hold
getPartialStress(m, p, blockName, worksetIndex, worksetLocalElementId) ==
  IF ~m.hasPeridynamics
  THEN [m |-> m, globalElementId |-> 0, outcome |-> "ok", rows |-> 0]
  ELSE LET globalElementId == At(m.worksetLocalIdToGlobalId[worksetIndex], worksetLocalElementId)
           table == m.albanyPartialStressElementGlobalIdToPeridigmGlobalIds
           table1 == IF globalElementId \in DOMAIN table
                     THEN table
                     ELSE MapPut(table, globalElementId, <<>>)
           s == CopyPartialStress(0, table1[globalElementId], BlockMapIds(m, p, blockName),
                                  [outcome |-> "ok", rows |-> 0])
       IN [m |-> [m EXCEPT !.albanyPartialStressElementGlobalIdToPeridigmGlobalIds = table1],
           globalElementId |-> globalElementId, outcome |-> s.outcome, rows |-> s.rows]

\* single-rank runs of every kind
QueryConfigs == {c \in Configs : c.numProc = 1}

InitQuery == InitFor(QueryConfigs)

\* the (workset index, local element id) pairs of the rank's mesh; a manager
\* without peridynamics never looks at the pair
WorksetEntries(m) ==
  IF ~m.hasPeridynamics
  THEN {<<0, 0>>}
  ELSE UNION { {<<w, l>> : l \in 0..(Len(m.worksetLocalIdToGlobalId[w]) - 1)} :
                 w \in DOMAIN m.worksetLocalIdToGlobalId }

\* the caller passes a workset index and a local element id of its mesh; the
\* record of the call keeps the block's index as field, the element id the
\* pair resolved to as id and the number of rows written as value
GetPartialStress(pid) ==
  /\ Callable(pid)
  /\ \E iBlock \in DOMAIN cfg.blocks, entry \in WorksetEntries(mgr[pid]) :
       LET r == getPartialStress(mgr[pid], peridigm[pid], cfg.blocks[iBlock].name,
                                 entry[1], entry[2])
       IN /\ mgr' = [mgr EXCEPT ![pid] = r.m]
          /\ lastCall' = [lastCall EXCEPT ![pid] =
               Call("getPartialStress", 0, iBlock, r.globalElementId, 0, r.outcome, r.rows)]
          /\ pc' = [pc EXCEPT ![pid] = IF r.outcome = "ok" THEN @ ELSE "threw"]
  /\ UNCHANGED <<cfg, nReduce, localVal, globalVal, loc, peridigm, committed>>

NextQuery ==
  \/ Next
  \/ \E pid \in Ranks(cfg) : GetPartialStress(pid)

SpecQuery == InitQuery /\ [][NextQuery]_vars

\* the mesh elements initialize() registered as partial-stress elements
PartialStressElementIds(r) ==
  { ZeroBased(mgr[r].partialStressElements[k].albanyElement) :
      k \in DOMAIN mgr[r].partialStressElements }

\* C12: with peridynamics present, getPartialStress ends in a fatal error
\* whenever the element its arguments resolve to is not a registered
\* partial-stress element or owns an id the block's map does not hold
C12_GetPartialStressUnknown ==
  \A r \in Ranks(cfg) :
    /\ lastCall[r].op = "getPartialStress"
    /\ mgr[r].hasPeridynamics
    /\ \/ lastCall[r].id \notin PartialStressElementIds(r)
       \/ \E g \in Range(mgr[r].albanyPartialStressElementGlobalIdToPeridigmGlobalIds[lastCall[r].id]) :
            g \notin BlockMapIds(mgr[r], peridigm[r], cfg.blocks[lastCall[r].field].name)
    => lastCall[r].outcome = "InvalidId"

----------------------------------------------------------------------------
\* The id tables initialize() leaves

\* C13: after initialize(), peridigmNodeGlobalIds has no repeated id and
\* peridigmGlobalIdToPeridigmLocalId maps the id at every local index back to
\* that index
C13_IdBijection ==
  \A r \in Ranks(cfg) :
    IdsAssigned(r) =>
      LET ids == mgr[r].peridigmNodeGlobalIds
      IN /\ \A i, j \in DOMAIN ids : ids[i] = ids[j] => i = j
         /\ DOMAIN mgr[r].peridigmGlobalIdToPeridigmLocalId = Range(ids)
         /\ \A i \in DOMAIN ids :
              mgr[r].peridigmGlobalIdToPeridigmLocalId[ids[i]] = i - 1

----------------------------------------------------------------------------
\* The classification of the element blocks

\* rank r has finished the first loop over the blocks (lines 91-158)
Classified(r) ==
  \/ pc[r] \in {"inReduce", "gotResult", "done"}
  \/ pc[r] = "returned" /\ cfg.hasPeridigmParameters

\* the names of the blocks whose database entry names the given model
BlocksWithModel(model) ==
  SelectSeq([i \in DOMAIN cfg.blocks |-> cfg.blocks[i].name],
            LAMBDA name : \E i \in DOMAIN cfg.blocks :
                            /\ cfg.blocks[i].name = name
                            /\ cfg.hasMaterialDB
                            /\ cfg.blocks[i].model = model)

\* the local elements of the blocks with the given names, block by block
RECURSIVE ElementsOfBlocks(_, _, _)
ElementsOfBlocks(r, names, iBlock) ==
  IF iBlock > Len(cfg.blocks) THEN <<>>
  ELSE (IF cfg.blocks[iBlock].name \in Range(names)
        THEN elementsInElementBlock(cfg, r, iBlock)
        ELSE <<>>) \o ElementsOfBlocks(r, names, iBlock + 1)

----------------------------------------------------------------------------
\* The block ids

\* the characters after the last underscore of a block name
Suffix(blockName) ==
  SubSeq(blockName, FindLastOf(blockName, "_") + 2, Len(blockName))

\* the suffix is a non-empty string of decimal digits
NumericSuffix(blockName) ==
  /\ FindLastOf(blockName, "_") # -1
  /\ Suffix(blockName) # <<>>
  /\ \A k \in DOMAIN Suffix(blockName) : Suffix(blockName)[k] \in Range(Digits)

\* rank r has entered the first loop over the blocks
ParsedBlockNames(r) ==
  \/ Classified(r)
  \/ pc[r] = "threw" /\ loc[r].err \notin {"", "InvalidDiscretization"}

\* C15: every block id in blockNameToBlockId is the integer its block name
\* spells after the last underscore, a name without an underscore ends
\* initialize() with a ParseError and without an entry for that name, and
\* after a normal first loop every block has an entry
C15_BlockIdParsed ==
  \A r \in Ranks(cfg) :
    ParsedBlockNames(r) =>
      /\ \A blockName \in DOMAIN mgr[r].blockNameToBlockId :
           /\ NumericSuffix(blockName)
           /\ mgr[r].blockNameToBlockId[blockName] = ExtractInt(Suffix(blockName), 1, 0)
      /\ \A i \in DOMAIN cfg.blocks :
           FindLastOf(cfg.blocks[i].name, "_") = -1 =>
             /\ cfg.blocks[i].name \notin DOMAIN mgr[r].blockNameToBlockId
             /\ pc[r] = "threw"
             /\ loc[r].err = "ParseError"
      /\ Classified(r) =>
           \A i \in DOMAIN cfg.blocks :
             cfg.blocks[i].name \in DOMAIN mgr[r].blockNameToBlockId

----------------------------------------------------------------------------
\* setOutputFields() and getOutputFields(), lines 720-762

\* the names the comparisons of lines 735, 740 and 745 accept
ScalarElementFields ==
  {"Dilatation", "Weighted_Volume", "Radius", "Number_Of_Neighbors", "Horizon", "Volume"}

VectorNodeFields ==
  {"Model_Coordinates", "Coordinates", "Displacement", "Velocity", "Force"}

TensorElementFields ==
  {"Deformation_Gradient", "Unrotated_Rate_Of_Deformation", "Cauchy_Stress", "Partial_Stress"}

\* the names a parameter list may hold: the accepted ones in the order of
\* the source, and among them two names no comparison accepts
RequestedNames ==
  << "Dilatation", "Weighted_Volume", "Radius", "Number_Of_Neighbors", "Horizon",
     "Volume", "Bogus", "Model_Coordinates", "Coordinates", "Displacement",
     "Velocity", "velocity", "Force", "Deformation_Gradient",
     "Unrotated_Rate_Of_Deformation", "Cauchy_Stress", "Partial_Stress" >>

\* the number of names the parameter lists of one run draw from
MaxNames == 2

\* the names of one run: up to MaxNames neighbours in RequestedNames
NameWindows ==
  { { RequestedNames[((first + k) % Len(RequestedNames)) + 1] : k \in 0..(n - 1) } :
      first \in 0..(Len(RequestedNames) - 1), n \in 1..MaxNames }

InCatalog_Any(name) == TRUE

\* lines 735-752: the name passes one of the three comparisons
InCatalog(name) ==
  name \in ScalarElementFields \cup VectorNodeFields \cup TensorElementFields

FieldLength_One(name) == 1

\* lines 738, 743, 748
FieldLength(name) ==
  IF name \in ScalarElementFields THEN 1
  ELSE IF name \in VectorNodeFields THEN 3
  ELSE IF name \in TensorElementFields THEN 9
  ELSE 0

\* lines 731-749: the record built for a name; relation, initType and length
\* are left as constructed when no comparison accepts the name
OutputField(name) ==
  [albanyName |-> "Peridigm_" \o name,
   peridigmName |-> name,
   relation |-> IF name \in ScalarElementFields \cup TensorElementFields THEN "element"
                ELSE IF name \in VectorNodeFields THEN "node"
                ELSE "",
   initType |-> IF InCatalog(name) THEN "scalar" ELSE "",
   length |-> FieldLength(name)]

Registered_Never(outputFields, field) == FALSE

\* line 755: std::find(outputFields.begin(), outputFields.end(), field) finds
\* an equal record
Registered(outputFields, field) ==
  \E k \in DOMAIN outputFields : outputFields[k] = field

\* lines 722-757: the loop over the parameter list from entry k on
RECURSIVE setOutputFields(_, _, _)
setOutputFields(outputFields, params, k) ==
  IF k > Len(params) THEN [outcome |-> "ok", outputFields |-> outputFields]
  ELSE LET name == params[k]
           field == OutputField(name)
       IN IF ~InCatalog(name)
          THEN [outcome |-> "ConfigurationError", outputFields |-> outputFields]
          ELSE setOutputFields(IF Registered(outputFields, field)
                               THEN outputFields
                               ELSE Append(outputFields, field),
                               params, k + 1)

\* line 759-762
getOutputFields(m) == m.outputFields

\* one rank with a mesh of no use here and the names its parameter lists hold
OutputConfigs ==
  { [numProc |-> 1, owner |-> RoundRobin(1), hasPeridigmParameters |-> TRUE,
     hasMaterialDB |-> TRUE, blocks |-> StkElementBlocks, spatialDimension |-> 3,
     hasCoordinatesField |-> TRUE, hasVolumeField |-> TRUE, outputNames |-> names] :
    names \in NameWindows }

InitOutput == InitFor(OutputConfigs)

\* the Teuchos::ParameterList arguments: each name at most once, any order
ParameterLists(names) ==
  { params \in UNION { [1..n -> names] : n \in 0..Cardinality(names) } :
      \A i, j \in DOMAIN params : i # j => params[i] # params[j] }

\* lines 720-757; the call record keeps the argument in its field slot and
\* the length of the list afterwards as its value
SetOutputFields(pid) ==
  /\ Callable(pid)
  /\ \E params \in ParameterLists(cfg.outputNames) :
       LET r == setOutputFields(mgr[pid].outputFields, params, 1)
       IN /\ mgr' = [mgr EXCEPT ![pid].outputFields = r.outputFields]
          /\ lastCall' = [lastCall EXCEPT ![pid] =
               Call("setOutputFields", 0, params, 0, 0, r.outcome, Len(r.outputFields))]
          /\ pc' = [pc EXCEPT ![pid] = IF r.outcome = "ok" THEN @ ELSE "threw"]
  /\ UNCHANGED <<cfg, nReduce, localVal, globalVal, loc, peridigm, committed>>

NextOutput == \E pid \in Ranks(cfg) : SetOutputFields(pid)

SpecOutput == InitOutput /\ [][NextOutput]_vars

\* the names before the first one of params that is outside the catalog
RECURSIVE Accepted(_, _)
Accepted(params, k) ==
  IF k > Len(params) \/ ~(params[k] \in ScalarElementFields \cup VectorNodeFields
                                         \cup TensorElementFields)
  THEN <<>>
  ELSE <<params[k]>> \o Accepted(params, k + 1)

\* C16: a call registers, for every requested catalog name it reaches, the
\* record with albanyName "Peridigm_" + name, peridigmName name and the
\* relation and length of the name's category (element/1, node/3, element/9),
\* and the list never holds a record of another shape
C16_CatalogRecords ==
  \A r \in Ranks(cfg) :
    /\ lastCall[r].op = "setOutputFields" =>
         \A name \in Range(Accepted(lastCall[r].field, 1)) :
           \E k \in DOMAIN getOutputFields(mgr[r]) :
             /\ getOutputFields(mgr[r])[k].peridigmName = name
             /\ getOutputFields(mgr[r])[k].albanyName = "Peridigm_" \o name
    /\ \A k \in DOMAIN getOutputFields(mgr[r]) :
         LET f == getOutputFields(mgr[r])[k]
         IN /\ f.albanyName = "Peridigm_" \o f.peridigmName
            /\ f.peridigmName \in {"Dilatation", "Weighted_Volume", "Radius",
                                   "Number_Of_Neighbors", "Horizon", "Volume"}
                 => f.relation = "element" /\ f.length = 1
            /\ f.peridigmName \in {"Model_Coordinates", "Coordinates",
                                   "Displacement", "Velocity", "Force"}
                 => f.relation = "node" /\ f.length = 3
            /\ f.peridigmName \in {"Deformation_Gradient", "Unrotated_Rate_Of_Deformation",
                                   "Cauchy_Stress", "Partial_Stress"}
                 => f.relation = "element" /\ f.length = 9

\* "Velocity" and one more field are registered
C16_Witness ==
  \E r \in Ranks(cfg) :
    /\ lastCall[r].op = "setOutputFields"
    /\ lastCall[r].outcome = "ok"
    /\ \E k \in DOMAIN getOutputFields(mgr[r]) :
         getOutputFields(mgr[r])[k] =
           [albanyName |-> "Peridigm_Velocity", peridigmName |-> "Velocity",
            relation |-> "node", initType |-> "scalar", length |-> 3]
    /\ Len(getOutputFields(mgr[r])) = 2

\* C17: a call whose parameter list holds a name outside the catalog ends in
\* a ConfigurationError, and the list getOutputFields returns never holds a
\* record for a name outside the catalog
C17_UnknownNameRejected ==
  \A r \in Ranks(cfg) :
    /\ ( /\ lastCall[r].op = "setOutputFields"
         /\ \E k \in DOMAIN lastCall[r].field :
              lastCall[r].field[k] \notin
                {"Dilatation", "Weighted_Volume", "Radius", "Number_Of_Neighbors",
                 "Horizon", "Volume", "Model_Coordinates", "Coordinates",
                 "Displacement", "Velocity", "Force", "Deformation_Gradient",
                 "Unrotated_Rate_Of_Deformation", "Cauchy_Stress", "Partial_Stress"} )
         => lastCall[r].outcome = "ConfigurationError" /\ pc[r] = "threw"
    /\ \A k \in DOMAIN getOutputFields(mgr[r]) :
         getOutputFields(mgr[r])[k].peridigmName \in
           {"Dilatation", "Weighted_Volume", "Radius", "Number_Of_Neighbors",
            "Horizon", "Volume", "Model_Coordinates", "Coordinates",
            "Displacement", "Velocity", "Force", "Deformation_Gradient",
            "Unrotated_Rate_Of_Deformation", "Cauchy_Stress", "Partial_Stress"}

\* a call with a catalog name followed by "Bogus" was rejected after the
\* catalog name was registered
C17_Witness ==
  \E r \in Ranks(cfg) :
    /\ lastCall[r].op = "setOutputFields"
    /\ Len(lastCall[r].field) = 2
    /\ lastCall[r].field[2] = "Bogus"
    /\ lastCall[r].outcome = "ConfigurationError"
    /\ Len(getOutputFields(mgr[r])) = 1

\* the records of the names of a sequence that list does not hold yet, in
\* the order of the sequence
RECURSIVE FirstRegistrations(_, _, _)
FirstRegistrations(list, names, k) ==
  IF k > Len(names) THEN list
  ELSE FirstRegistrations(
         IF \E i \in DOMAIN list : list[i].peridigmName = names[k]
         THEN list
         ELSE Append(list, [albanyName |-> "Peridigm_" \o names[k],
                            peridigmName |-> names[k],
                            relation |-> IF names[k] \in VectorNodeFields
                                         THEN "node" ELSE "element",
                            initType |-> "scalar",
                            length |-> IF names[k] \in ScalarElementFields THEN 1
                                       ELSE IF names[k] \in VectorNodeFields THEN 3
                                       ELSE 9]),
         names, k + 1)

\* C18: the list holds no record twice; a call keeps the records it found
\* where they are and appends the names it registers for the first time in
\* the order of its parameter list, so a call whose names are all registered
\* leaves the list as it was
C18_NoDuplicates ==
  [][ \A r \in Ranks(cfg) :
        lastCall'[r].op = "setOutputFields" =>
          /\ \A i, j \in DOMAIN getOutputFields(mgr'[r]) :
               i # j => getOutputFields(mgr'[r])[i].peridigmName
                          # getOutputFields(mgr'[r])[j].peridigmName
          /\ getOutputFields(mgr'[r]) =
               FirstRegistrations(getOutputFields(mgr[r]),
                                  Accepted(lastCall'[r].field, 1), 1)
          /\ (\A k \in DOMAIN lastCall'[r].field :
                \E i \in DOMAIN getOutputFields(mgr[r]) :
                  getOutputFields(mgr[r])[i].peridigmName = lastCall'[r].field[k])
               => getOutputFields(mgr'[r]) = getOutputFields(mgr[r]) ]_vars

\* a call with two registered names, in the other order, returned and the
\* list still has its two records
C18_Witness ==
  \E r \in Ranks(cfg) :
    /\ lastCall[r].op = "setOutputFields"
    /\ lastCall[r].outcome = "ok"
    /\ Len(lastCall[r].field) = 2
    /\ Len(getOutputFields(mgr[r])) = 2
    /\ getOutputFields(mgr[r])[1].peridigmName = lastCall[r].field[2]
    /\ getOutputFields(mgr[r])[2].peridigmName = lastCall[r].field[1]

----------------------------------------------------------------------------
\* The volumes of the partial-stress points

\* the element whose nodes are positions has a Jacobian determinant that is
\* zero or negative at one of its quadrature points
Degenerate(positions) ==
  \E qp \in 1..NumQuadPoints : JacobianDeterminant(positions, qp) <= 0

\* the volume the solver of rank r was given for the point globalId
StoredVolume(r, globalId) ==
  At(peridigm[r].volume, mgr[r].peridigmGlobalIdToPeridigmLocalId[globalId])

\* C19: the volume stored for every quadrature point of a partial-stress
\* element that is not degenerate is strictly positive, and a rank that owns
\* a partial-stress element with a zero or negative Jacobian determinant ends
\* initialize() with a DegenerateElement error and has stored no volume for it
C19_PositiveVolumes ==
  \A r \in Ranks(cfg) :
    /\ pc[r] = "done" =>
         \A k \in DOMAIN mgr[r].partialStressElements :
           LET pse == mgr[r].partialStressElements[k]
           IN /\ ~Degenerate(pse.albanyNodeInitialPositions)
              /\ \A q \in DOMAIN pse.peridigmGlobalIds :
                   StoredVolume(r, pse.peridigmGlobalIds[q]) > 0
    /\ ( /\ Classified(r)
         /\ \E i \in DOMAIN Elements :
              /\ cfg.owner[i] = r
              /\ cfg.blocks[Elements[i].block].name
                   \in Range(loc[r].peridynamicPartialStressBlocks)
              /\ Degenerate(CellWorkset(Elements[i])) )
       => pc[r] \notin {"done", "returned"}

----------------------------------------------------------------------------
\* What initialize() decides about hasPeridynamics

\* rank r came back from initialize() without an exception
ReturnedNormally(r) == pc[r] \in {"done", "returned"}

\* C20: after a normal return hasPeridynamics is true iff the "Peridigm
\* Parameters" sublist is present and some block was classified as
\* "Peridynamics" or "Peridynamic Partial Stress"; without the sublist the
\* manager is as constructed but for hasPeridynamics = false; with the
\* sublist and classical blocks only hasPeridynamics is false and no solver
\* was built
C20_HasPeridynamics ==
  \A r \in Ranks(cfg) :
    ReturnedNormally(r) =>
      /\ mgr[r].hasPeridynamics <=>
           /\ cfg.hasPeridigmParameters
           /\ BlocksWithModel("Peridynamics") \o BlocksWithModel("Peridynamic Partial Stress") # <<>>
      /\ mgr[r].hasPeridynamics <=>
           /\ cfg.hasPeridigmParameters
           /\ loc[r].peridynamicsBlocks \o loc[r].peridynamicPartialStressBlocks # <<>>
      /\ ~cfg.hasPeridigmParameters =>
           /\ mgr[r] = [NewManager EXCEPT !.hasPeridynamics = FALSE]
           /\ peridigm[r] = Null
           /\ loc[r] = NoLocals
           /\ nReduce[r] = 0
      /\ ( /\ cfg.hasPeridigmParameters
           /\ Len(loc[r].classicalContinuumMechanicsBlocks) = Len(cfg.blocks) )
         => /\ ~mgr[r].hasPeridynamics
            /\ peridigm[r] = Null

\* a rank returned from a run with the sublist and classical blocks only
C20_Witness ==
  \E r \in Ranks(cfg) :
    /\ pc[r] = "returned"
    /\ cfg.hasPeridigmParameters
    /\ cfg.blocks # <<>>
    /\ Len(loc[r].classicalContinuumMechanicsBlocks) = Len(cfg.blocks)
    /\ ~mgr[r].hasPeridynamics
    /\ peridigm[r] = Null

----------------------------------------------------------------------------
\* The ids of the partial-stress elements

\* the ids of the k-th partial-stress element of a rank whose allocated ids
\* are ids: NumQuadPoints consecutive entries
ElementSlice(ids, k) ==
  SubSeq(ids, (k - 1) * NumQuadPoints + 1, k * NumQuadPoints)

\* C21: on a rank that finished initialize(), the k-th locally-owned
\* partial-stress element holds NumQuadPoints ids, the k-th run of
\* consecutive ids of the rank's allocated range; every allocated id is held
\* by exactly one element and the elements hold nothing else; and
\* albanyPartialStressElementGlobalIdToPeridigmGlobalIds maps the global id of
\* each of these elements, and nothing else, to its ordered list
C21_ElementIdLists ==
  \A r \in Ranks(cfg) :
    pc[r] = "done" =>
      LET pse == mgr[r].partialStressElements
          ids == PartialStressIds(r)
          table == mgr[r].albanyPartialStressElementGlobalIdToPeridigmGlobalIds
      IN /\ Len(pse) * NumQuadPoints = Len(ids)
         /\ Len(ids) = LocalPointCount(r)
         /\ \A k \in DOMAIN pse :
              /\ Len(pse[k].peridigmGlobalIds) = NumQuadPoints
              /\ pse[k].peridigmGlobalIds = ElementSlice(ids, k)
              /\ \A q \in 1..(NumQuadPoints - 1) :
                   pse[k].peridigmGlobalIds[q + 1] = pse[k].peridigmGlobalIds[q] + 1
              /\ k > 1 => pse[k].peridigmGlobalIds[1]
                            = pse[k - 1].peridigmGlobalIds[NumQuadPoints] + 1
         /\ \A id \in Range(ids) :
              Cardinality({k \in DOMAIN pse : id \in Range(pse[k].peridigmGlobalIds)}) = 1
         /\ UNION {Range(pse[k].peridigmGlobalIds) : k \in DOMAIN pse} = Range(ids)
         /\ DOMAIN table = {ZeroBased(pse[k].albanyElement) : k \in DOMAIN pse}
         /\ \A k \in DOMAIN pse :
              table[ZeroBased(pse[k].albanyElement)] = pse[k].peridigmGlobalIds

\* a rank finished initialize() with two partial-stress elements, after the
\* ids of its sphere elements
C21_Witness ==
  \E r \in Ranks(cfg) :
    /\ pc[r] = "done"
    /\ Len(mgr[r].partialStressElements) = 2
    /\ mgr[r].sphereElementGlobalNodeIds # <<>>
    /\ DOMAIN mgr[r].albanyPartialStressElementGlobalIdToPeridigmGlobalIds # {}

----------------------------------------------------------------------------
\* What setCurrentTimeAndDisplacement() and updateState() leave alone

\* C22: a step that ends with setCurrentTimeAndDisplacement as the rank's
\* last call is that call or changes nothing of the rank, and likewise for
\* updateState.  setCurrentTimeAndDisplacement changes no field of the manager but
\* currentTime and timeStep, so previousTime, previousSolutionPositions, the
\* id maps, the partial-stress element records and the output fields stay;
\* updateState changes no field but previousTime and
\* previousSolutionPositions, and leaves the solver's time step, its maps and
\* its position, displacement and velocity vectors as they were
C22_Frame ==
  [][ \A r \in Ranks(cfg) :
        /\ lastCall'[r].op = "setCurrentTimeAndDisplacement"
           => /\ mgr'[r].previousTime = mgr[r].previousTime
              /\ mgr'[r].previousSolutionPositions = mgr[r].previousSolutionPositions
              /\ mgr'[r] = [mgr[r] EXCEPT !.currentTime = mgr'[r].currentTime,
                                          !.timeStep = mgr'[r].timeStep]
              /\ mgr[r].hasPeridynamics => peridigm'[r].LID = peridigm[r].LID
        /\ lastCall'[r].op = "updateState"
           => /\ mgr'[r].currentTime = mgr[r].currentTime
              /\ mgr'[r].timeStep = mgr[r].timeStep
              /\ mgr'[r] = [mgr[r] EXCEPT
                    !.previousTime = mgr'[r].previousTime,
                    !.previousSolutionPositions = mgr'[r].previousSolutionPositions]
              /\ mgr[r].hasPeridynamics =>
                   /\ peridigm'[r].y = peridigm[r].y
                   /\ peridigm'[r].u = peridigm[r].u
                   /\ peridigm'[r].v = peridigm[r].v
                   /\ peridigm'[r].timeStep = peridigm[r].timeStep
                   /\ peridigm'[r].LID = peridigm[r].LID ]_vars

\* a setCurrentTimeAndDisplacement call at a time other than the one the
\* last updateState committed returned on a rank with partial-stress elements
C22_Witness ==
  \E r \in Ranks(cfg) :
    /\ mgr[r].hasPeridynamics
    /\ lastCall[r].op = "setCurrentTimeAndDisplacement"
    /\ lastCall[r].outcome = "ok"
    /\ committed[r].updated
    /\ mgr[r].previousTime # mgr[r].currentTime
    /\ mgr[r].partialStressElements # <<>>

----------------------------------------------------------------------------
\* The output fields after a rejected call

\* C23: a setOutputFields call that ends in a ConfigurationError leaves the
\* list getOutputFields returns as it was before the call
C23_RejectedCallChangesNothing ==
  [][ \A r \in Ranks(cfg) :
        ( /\ lastCall'[r].op = "setOutputFields"
          /\ lastCall'[r].outcome = "ConfigurationError" )
        => getOutputFields(mgr'[r]) = getOutputFields(mgr[r]) ]_vars

====
